---- MODULE Spec2Model ----
(***************************************************************************)
(* StateVectorSync participant (SvSync) and SVS-PS subscriber              *)
(* (SvSubscriber) of NDNts, packages/sync/src/svs.                         *)
(*                                                                         *)
(* Spec      : one engine in an open environment (any sync Interest may    *)
(*             arrive, the verifier may reject, the engine may be closed). *)
(* GroupSpec : a closed sync group of open engines with fair timers and    *)
(*             reliable delivery.                                          *)
(* SubSpec   : the subscriber; SyncUpdates, mapping Data and outer Data    *)
(*             are its inputs.                                             *)
(* SegSpec   : the subscriber with segmented publications and close().     *)
(* IsoSpec   : the subscriber with two SyncUpdates in progress.            *)
(* CloseSpec : one engine and the close() of its subscriber.               *)
(* TimerSpec : one engine whose pending timeout fires eventually.          *)
(* OverlapSpec : one engine with two inbound handlers in verification.     *)
(* MalformedSpec : one engine that is sent undecodable sync Interests.     *)
(* VecSpec   : SvStateVector.mergeFrom and listOlderThan on any vectors.   *)
(* MapSpec   : retrieveMapping of one SyncUpdate, batch by batch.          *)
(***************************************************************************)
EXTENDS Bags, Integers, FiniteSets, Sequences, TLC

\* ------------------------------------------------------------------ bounds
MaxSeq == 2
GroupMaxSeq == 1
MaxSegments == 3
MaxMapSeq == 5
MaxBatch == 3
MaxTimers == 2

Engines == {"e1", "e2"}
Solo == "e1"
Ids == {"A", "B"}

SeqNums == 0 .. MaxSeq

\* ------------------------------------------------------- SvStateVector
\* A state vector maps every publisher id to a sequence number; an id that
\* was never set reads as 0.
Vectors == [Ids -> SeqNums]

EmptyVector == [i \in Ids |-> 0]

Max(a, b) == IF a >= b THEN a ELSE b

Get(v, id) == v[id]

Set(v, id, n) == [v EXCEPT ![id] = n]

\* mergeFrom that stores the value of other for every id other knows
MergeFrom_Overwrite(this, other) ==
    [i \in Ids |-> IF Get(other, i) > 0 THEN Get(other, i) ELSE Get(this, i)]

\* mergeFrom that skips the ids this does not know yet
MergeFrom_KnownOnly(this, other) ==
    [i \in Ids |-> IF Get(this, i) = 0 THEN 0 ELSE Max(Get(this, i), Get(other, i))]

MergeFrom(this, other) == [i \in Ids |-> Max(Get(this, i), Get(other, i))]

\* listOlderThan that compares with <=
ListOlderThan_Inclusive(this, other) ==
    { [id |-> i, loSeqNum |-> Get(this, i) + 1, hiSeqNum |-> Get(other, i)] :
        i \in { j \in Ids : Get(this, j) <= Get(other, j) } }

ListOlderThan(this, other) ==
    { [id |-> i, loSeqNum |-> Get(this, i) + 1, hiSeqNum |-> Get(other, i)] :
        i \in { j \in Ids : Get(this, j) < Get(other, j) } }

\* ------------------------------------------------------------ SvSync state
\* aggregated is undefined in steady state; <<v>> holds the aggregated
\* vector v in suppression state.
Undefined == << >>

Defined(a) == a # Undefined

VARIABLES
    own,            \* own[e]        : own state vector
    aggregated,     \* aggregated[e] : Undefined or <<vector>>
    timer,          \* timer[e]      : pending setTimeout, by the delay it was armed with
    producerClosed, \* producerClosed[e] : producer.close() was called
    verifying,      \* verifying[e]  : vectors of sync Interests awaiting verifier.verify
    out,            \* what the last event did (engine, sent Interests, SyncUpdates)
    lastHi,         \* lastHi[e][id] : hiSeqNum of the last SyncUpdate emitted for id
    pubMax,         \* pubMax[id]    : highest sequence number published in the group
    scheduled,      \* scheduled[e] : the timeouts of e that the event loop holds
    handle,         \* handle[e]    : this.timer, 0 before the first setTimeout
    probe           \* TRUE : one engine is observed, its calls and events are recorded
                    \*        in out and lastHi;
                    \* FALSE: a closed group is observed, its publishes are recorded
                    \*        in pubMax

syncVars == << own, aggregated, timer, producerClosed, verifying, out, lastHi, pubMax, probe,
              scheduled, handle >>

\* ------------------------------------------------------ SvSubscriber state
VARIABLES
    mustFilterByMapping, \* Options.mustFilterByMapping
    subscribed,          \* subscriptions registered in publisherSubs / nameSubs
    aborted,             \* this.abort.signal.aborted
    task,                \* task[u] : progress of one handleSyncUpdate invocation
    subOut               \* what the last subscriber event did (deliveries, errors)

subVars == << mustFilterByMapping, subscribed, aborted, task, subOut >>

\* ------------------------------------------- SvStateVector operands
VARIABLES
    vec,    \* vec.a, vec.b, vec.c : three state vectors
    vecOut  \* the last SvStateVector call: its operands and what it returned

vecVars == << vec, vecOut >>

NoVecOut == [op |-> "init", this |-> "-", other |-> "-", ranges |-> {}]

\* no SvStateVector is under test
VecIdle ==
    /\ vec = [r \in {"a", "b", "c"} |-> EmptyVector]
    /\ vecOut = NoVecOut

\* ------------------------------------------- retrieveMapping under test
VARIABLES
    mappingBatch,   \* Options.mappingBatch
    mapRun          \* the retrieveMapping call of one SyncUpdate and the
                    \* dispatchUpdate calls that follow it

mapVars == << mappingBatch, mapRun >>

\* reqs: the [loSeqNum, hiSeqNum] of the mapping Interests, in the order they
\* were sent; resp: what became of each; m: the sequence numbers that have an
\* entry in the Map; errors: the "error" events per Interest; dispatched: the
\* dispatchUpdate calls, each with whether mapping.get(seqNum) was defined
NoMapRun == [st |-> "idle", lo |-> 0, hi |-> 0, reqs |-> << >>, resp |-> << >>,
             m |-> {}, errors |-> << >>, dispatched |-> {}]

\* no retrieveMapping is under test; mappingBatch has its default
MapIdle ==
    /\ mappingBatch = 10
    /\ mapRun = NoMapRun

vars == << own, aggregated, timer, producerClosed, verifying, out, lastHi, pubMax, probe,
           mustFilterByMapping, subscribed, aborted, task, subOut, vec, vecOut,
           mappingBatch, mapRun, scheduled, handle >>

TimerKinds == {"none", "immediate", "steady", "suppression"}

NoOut == [eng |-> "-", act |-> "init", id |-> "-", n |-> 0,
          recv |-> << >>, sent |-> << >>, updates |-> {}, timerCalls |-> << >>]

Out(e, act, id, n, recv, sent, updates) ==
    [eng |-> e, act |-> act, id |-> id, n |-> n,
     recv |-> recv, sent |-> sent, updates |-> updates, timerCalls |-> << >>]

\* resetTimer without clearTimeout
ResetTimerCalls_NoClear == << "setTimeout" >>

\* The calls the handler made on this.timer, in order.
ResetTimerCalls == << "clearTimeout", "setTimeout" >>

CloseTimerCalls == << "clearTimeout" >>

TimerCalls(o, calls) == [o EXCEPT !.timerCalls = calls]

\* setTimeout returns a handle that no pending timeout has
NewTimeout(S) ==
    IF \E i \in 1 .. MaxTimers : i \notin S
    THEN CHOOSE i \in 1 .. MaxTimers :
            i \notin S /\ \A j \in 1 .. MaxTimers : j \notin S => i <= j
    ELSE MaxTimers

\* The pending timeouts S and this.timer = h after the calls:
\* clearTimeout(this.timer) takes the timeout of that handle out, if it is
\* pending; this.timer = setTimeout(...) adds one and keeps its handle.
RECURSIVE TimerState(_, _, _)
TimerState(S, h, calls) ==
    IF calls = << >> THEN << S, h >>
    ELSE IF Head(calls) = "clearTimeout"
    THEN TimerState(S \ { h }, h, Tail(calls))
    ELSE TimerState(S \cup { NewTimeout(S) }, NewTimeout(S), Tail(calls))

EventLoop(e, S, calls) ==
    /\ scheduled' = [scheduled EXCEPT ![e] = TimerState(S, handle[e], calls)[1]]
    /\ handle' = [handle EXCEPT ![e] = TimerState(S, handle[e], calls)[2]]

\* a handler of engine e that is not handleTimer made these calls
TimerLoop(e, calls) == EventLoop(e, scheduled[e], calls)

\* the event loop takes a pending timeout of e out and runs handleTimer,
\* which makes these calls
TimerFires(e, calls) ==
    \E h \in scheduled[e] : EventLoop(e, scheduled[e] \ { h }, calls)

Record(o) == out' = IF probe THEN o ELSE out

\* hiSeqNum of the update for id in a set of updates, or dflt when there is none
HiOf(updates, id, dflt) ==
    IF \E u \in updates : u.id = id
    THEN (CHOOSE u \in updates : u.id = id).hiSeqNum
    ELSE dflt

\* ------------------------------------------------------------ SvSubscriber
\* Names are sequences of components.
Version0 == "v=0"
Segment0 == "seg=0"

\* Segment.create(k)
SegmentComp(k) == "seg=" \o ToString(k)

SegmentNums == 0 .. MaxSegments - 1

\* comp.is(Segment) and comp.as(Segment)
IsSegment(comp) == \E k \in SegmentNums : comp = SegmentComp(k)

AsSegment(comp) == CHOOSE k \in SegmentNums : comp = SegmentComp(k)

TopicNames == { << "t", "x" >>, << "u" >> }

\* names an inner Data can carry: a topic name, or a topic name followed by
\* the version marker and a segment component
InnerNames == TopicNames \cup { << "t", "x", Version0, Segment0 >> }

\* inner names of the segments of an object published as /t/x
SegmentNames == { << "t", "x", Version0, SegmentComp(k) >> : k \in SegmentNums }

\* inner.content: one byte; the byte of a segment is its segment number
WholeContent == << 255 >>

InnerContent(inner) ==
    IF Len(inner) > 0 /\ IsSegment(inner[Len(inner)])
    THEN << AsSegment(inner[Len(inner)]) >>
    ELSE WholeContent

\* A mapping entry is represented by the name it carries; NoEntry stands for
\* mapping.get(seqNum) === undefined.
NoEntry == << >>

Entries == TopicNames \cup { NoEntry }

\* Subscription handles the application may register.
SubPublisher == [h |-> "p", kind |-> "publisher", id |-> "A", prefix |-> << >>,
                 hasFilter |-> FALSE, accept |-> {}]
SubPrefix == [h |-> "n", kind |-> "prefix", id |-> "-", prefix |-> << "t" >>,
              hasFilter |-> FALSE, accept |-> {}]
SubFilterFalse == [h |-> "f", kind |-> "prefix", id |-> "-", prefix |-> << "t" >>,
                   hasFilter |-> TRUE, accept |-> {}]
SubFilterTX == [h |-> "g", kind |-> "prefix", id |-> "-", prefix |-> << >>,
                hasFilter |-> TRUE, accept |-> { << "t", "x" >> }]

Subs == { SubPublisher, SubPrefix, SubFilterFalse, SubFilterTX }

\* handleSyncUpdate invocations that may be in progress at the same time
Updates == { "u1", "u2" }

OneUpdate == { "u1" }

UpdateSeqs == 1 .. MaxSeq

\* const segments: Uint8Array[] = []; let nSegments = 0; count and got are
\* the number of segments of the object and the segment numbers that fetch
\* yielded, in the order it yielded them
NoSegments == [count |-> 0, got |-> << >>, nSegments |-> 0,
               arr |-> [k \in SegmentNums |-> Undefined]]

Yielded(seg) == { seg.got[i] : i \in DOMAIN seg.got }

IdleTask == [st |-> "idle", id |-> "-", lo |-> 0, hi |-> 0, pubSubs |-> {},
             known |-> {}, late |-> FALSE, mapping |-> << >>,
             pc |-> [q \in UpdateSeqs |-> "-"],
             nameSubs |-> [q \in UpdateSeqs |-> << >>],
             name |-> [q \in UpdateSeqs |-> << >>],
             seg |-> [q \in UpdateSeqs |-> NoSegments]]

\* known: the subscriptions that were registered when the SyncUpdate arrived
NoSubOut == [act |-> "init", upd |-> "-", seq |-> 0, id |-> "-", name |-> << >>,
             entry |-> NoEntry, delivered |-> {}, count |-> EmptyBag,
             payload |-> << >>, known |-> {}, was |-> "-", got |-> << >>,
             error |-> FALSE, cause |-> "-"]

\* count: how many times each handle was given the update; was: how far
\* dispatchUpdate of the sequence number had come; got: the segments that
\* were yielded before; cause: what the "error" event reports
SubOut(act, u, q, name, entry, count, payload, cause) ==
    [act |-> act, upd |-> u, seq |-> q,
     id |-> IF u \in Updates THEN task[u].id ELSE "-",
     name |-> name, entry |-> entry,
     delivered |-> BagToSet(count), count |-> count, payload |-> payload,
     known |-> IF u \in Updates THEN task[u].known ELSE {},
     was |-> IF u \in Updates /\ q \in UpdateSeqs THEN task[u].pc[q] ELSE "-",
     got |-> IF u \in Updates /\ q \in UpdateSeqs THEN task[u].seg[q].got ELSE << >>,
     error |-> cause # "-", cause |-> cause]

SubscriberIdle ==
    /\ mustFilterByMapping = FALSE
    /\ subscribed = {}
    /\ aborted = FALSE
    /\ task = [u \in Updates |-> IdleTask]
    /\ subOut = NoSubOut

\* SubscriptionTable.list(key)
PublisherSubsList(id) == { s \in subscribed : s.kind = "publisher" /\ s.id = id }

NameSubsList(prefix) == { s \in subscribed : s.kind = "prefix" /\ s.prefix = prefix }

\* SubscriptionTable.dimension: number of keys that have a subscription
NameSubsDimension ==
    Cardinality({ s.prefix : s \in { x \in subscribed : x.kind = "prefix" } })

\* lpm(name, get): the values found at the prefixes of name
Prefixes(name) == { SubSeq(name, 1, k) : k \in 0 .. Len(name) }

Lpm(name) == { NameSubsList(pfx) : pfx \in Prefixes(name) } \ { {} }

\* this.nameFilters.get(sub)?.(entry) !== false
FilterPasses(sub, entry) == ~sub.hasFilter \/ entry \in sub.accept

\* the turns of the loops of listNameSubs: a set that lpm yields and a handle
\* of that set
Visits(name) == UNION { { << sub, set >> : sub \in set } : set \in Lpm(name) }

\* subs: the handles pushed, each with the number of times it was pushed;
\* pushes holds one element per subs.push
Pushed(pushes) ==
    [sub \in { p[1] : p \in pushes } |-> Cardinality({ p \in pushes : p[1] = sub })]

\* listNameSubs without the filter call
ListNameSubs_NoFilter(name, entry) == Pushed(Visits(name))

\* listNameSubs that pushes the handles of a prefix again at every longer
\* prefix of the name
ListNameSubs_PushAgain(name, entry) ==
    Pushed({ p \in (UNION Lpm(name)) \X Prefixes(name) :
               /\ p[1].prefix \in Prefixes(p[2])
               /\ (entry = NoEntry \/ FilterPasses(p[1], entry)) })

\* listNameSubs(name, entry)
ListNameSubs(name, entry) ==
    Pushed({ p \in Visits(name) : entry = NoEntry \/ FilterPasses(p[1], entry) })

\* inner.name.get(-2)?.equals(Version0) ? inner.name.getPrefix(-2) : inner.name
EffectiveName(inner) ==
    IF Len(inner) >= 2 /\ inner[Len(inner) - 1] = Version0
    THEN SubSeq(inner, 1, Len(inner) - 2)
    ELSE inner

\* mapping?.get(seqNum)
MappingGet(t, q) == IF t.mapping = << >> THEN NoEntry ELSE t.mapping[1][q]

\* the pipeline of handleSyncUpdate ends when every dispatchUpdate returned
\* or threw
Settle(t) ==
    IF \A q \in UpdateSeqs : t.pc[q] \in { "-", "done" } THEN IdleTask ELSE t

\* subscribe(topic)
Subscribe(sub) ==
    /\ sub \notin subscribed
    /\ subscribed' = subscribed \cup { sub }
    /\ subOut' = SubOut("subscribe", "-", 0, << >>, NoEntry, EmptyBag, << >>, "-")
    /\ UNCHANGED << mustFilterByMapping, aborted, task, syncVars, vecVars, mapVars >>

\* handleSyncUpdate without the nameSubs.dimension test
HandleSyncUpdate_AnyDimension(u, id, lo, hi) ==
    /\ task[u].st = "idle"
    /\ lo <= hi
    /\ LET publisherSubs == PublisherSubsList(id)
           retrieve == publisherSubs = {} \/ mustFilterByMapping
       IN  task' = [task EXCEPT ![u] =
                [IdleTask EXCEPT
                    !.st = IF retrieve THEN "mapping" ELSE "dispatch",
                    !.id = id, !.lo = lo, !.hi = hi, !.pubSubs = publisherSubs,
                    !.known = subscribed, !.late = aborted,
                    !.pc = [q \in UpdateSeqs |->
                               IF lo <= q /\ q <= hi THEN "new" ELSE "-"]]]
    /\ subOut' = SubOut("update", u, 0, << >>, NoEntry, EmptyBag, << >>, "-")
    /\ UNCHANGED << mustFilterByMapping, aborted, subscribed, syncVars, vecVars, mapVars >>

\* handleSyncUpdate, up to the first await; late: close() was called before
HandleSyncUpdate(u, id, lo, hi) ==
    /\ task[u].st = "idle"
    /\ lo <= hi
    /\ LET publisherSubs == PublisherSubsList(id)
           retrieve == NameSubsDimension # 0
                         /\ (publisherSubs = {} \/ mustFilterByMapping)
       IN  task' = [task EXCEPT ![u] =
                [IdleTask EXCEPT
                    !.st = IF retrieve THEN "mapping" ELSE "dispatch",
                    !.id = id, !.lo = lo, !.hi = hi, !.pubSubs = publisherSubs,
                    !.known = subscribed, !.late = aborted,
                    !.pc = [q \in UpdateSeqs |->
                               IF lo <= q /\ q <= hi THEN "new" ELSE "-"]]]
    /\ subOut' = SubOut("update", u, 0, << >>, NoEntry, EmptyBag, << >>, "-")
    /\ UNCHANGED << mustFilterByMapping, aborted, subscribed, syncVars, vecVars, mapVars >>

\* retrieveMapping resolves with the entries m decoded from the mapping Data
\* that arrived; a sequence number of a failed batch has no entry, and the
\* batches that were pending when the signal aborted are rejected.
RetrieveMapping(u, m) ==
    /\ task[u].st \in { "mapping", "mapcancel" }
    /\ \A q \in UpdateSeqs : (q < task[u].lo \/ q > task[u].hi) => m[q] = NoEntry
    /\ task[u].st = "mapcancel" => \A q \in UpdateSeqs : m[q] = NoEntry
    /\ task' = [task EXCEPT ![u].st = "dispatch", ![u].mapping = << m >>]
    /\ subOut' = SubOut("mapping", u, 0, << >>, NoEntry, EmptyBag, << >>,
                        IF \E q \in UpdateSeqs :
                              task[u].lo <= q /\ q <= task[u].hi /\ m[q] = NoEntry
                        THEN "retrieveMapping" ELSE "-")
    /\ UNCHANGED << mustFilterByMapping, aborted, subscribed, syncVars, vecVars, mapVars >>

\* dispatchUpdate, up to the outer Interest
DispatchUpdate(u, q) ==
    /\ task[u].st = "dispatch"
    /\ task[u].pc[q] = "new"
    /\ LET t == task[u]
           entry == MappingGet(t, q)
           early == t.pubSubs = {} /\ t.mapping # << >>
           nameSubs == ListNameSubs(entry, entry)
       IN  IF early /\ (entry = NoEntry \/ BagToSet(nameSubs) = {})
           THEN /\ task' = [task EXCEPT ![u] = Settle([t EXCEPT !.pc[q] = "done"])]
                /\ subOut' = SubOut("skip", u, q, << >>, entry, EmptyBag, << >>, "-")
           ELSE /\ task' = [task EXCEPT ![u].pc[q] = "outer",
                                        ![u].nameSubs[q] =
                                            IF early THEN << nameSubs >> ELSE << >>]
                /\ subOut' = SubOut("outer", u, q, << >>, entry, EmptyBag, << >>, "-")
    /\ UNCHANGED << mustFilterByMapping, aborted, subscribed, syncVars, vecVars, mapVars >>

\* what makes endpoint.consume, fetch or decap throw: the Interest is rejected
\* (timeout, Nack, cancel), the outer verifier rejects the outer Data, the
\* content does not decode as Data, the inner verifier rejects the inner Data
FailCauses == { "rejected", "outerVerify", "decode", "innerVerify" }

\* a failure that ends the whole pipeline of the SyncUpdate
DispatchFail_EndsPipeline(u, q, cause) ==
    /\ task[u].pc[q] \in { "outer", "fetch", "cancel" }
    /\ task[u].pc[q] = "cancel" => cause = "rejected"
    /\ task' = [task EXCEPT ![u] = IdleTask]
    /\ subOut' = SubOut("error", u, q, << >>, MappingGet(task[u], q), EmptyBag, << >>, cause)
    /\ UNCHANGED << mustFilterByMapping, aborted, subscribed, syncVars, vecVars, mapVars >>

\* a failure after the publisher-scoped subscriptions were given the update
DispatchFail_Partial(u, q, cause) ==
    /\ task[u].pc[q] \in { "outer", "fetch", "cancel" }
    /\ task[u].pc[q] = "cancel" => cause = "rejected"
    /\ task' = [task EXCEPT ![u] = Settle([task[u] EXCEPT !.pc[q] = "done"])]
    /\ subOut' = SubOut("error", u, q, << >>, MappingGet(task[u], q),
                        SetToBag(task[u].pubSubs), << >>, cause)
    /\ UNCHANGED << mustFilterByMapping, aborted, subscribed, syncVars, vecVars, mapVars >>

\* dispatchUpdate throws in endpoint.consume, decap or retrieveSegmented:
\* handleSyncUpdate catches and emits "error"
DispatchFail(u, q, cause) ==
    /\ task[u].pc[q] \in { "outer", "fetch", "cancel" }
    /\ task[u].pc[q] = "cancel" => cause = "rejected"
    /\ task' = [task EXCEPT ![u] = Settle([task[u] EXCEPT !.pc[q] = "done"])]
    /\ subOut' = SubOut("error", u, q, << >>, MappingGet(task[u], q), EmptyBag, << >>, cause)
    /\ UNCHANGED << mustFilterByMapping, aborted, subscribed, syncVars, vecVars, mapVars >>

\* this.publisherSubs.update(publisherSubs, update);
\* this.nameSubs.update(nameSubs, update)
TablesUpdate(u, q, name, nameSubs, payload) ==
    /\ task' = [task EXCEPT ![u] = Settle([task[u] EXCEPT !.pc[q] = "done"])]
    /\ subOut' = SubOut("deliver", u, q, name, MappingGet(task[u], q),
                        SetToBag(task[u].pubSubs) (+) nameSubs, payload, "-")

\* dispatchUpdate, from the outer Data on: decap, then the update of the
\* tables or retrieveSegmented. n = 0: outer.name equals outerPrefix;
\* n > 0: the outer Data is a segment of an object of n segments.
DispatchData(u, q, inner, n) ==
    /\ task[u].st = "dispatch"
    /\ task[u].pc[q] = "outer"
    /\ LET t == task[u]
           entry == MappingGet(t, q)
           name == EffectiveName(inner)
           nameSubs == IF t.nameSubs[q] # << >> THEN t.nameSubs[q][1]
                       ELSE ListNameSubs(name, entry)
       IN  IF BagToSet(nameSubs) = {} /\ t.pubSubs = {}
           THEN /\ task' = [task EXCEPT ![u] = Settle([t EXCEPT !.pc[q] = "done"])]
                /\ subOut' = SubOut("drop", u, q, name, entry, EmptyBag, << >>, "-")
           ELSE IF n = 0
           THEN TablesUpdate(u, q, name, nameSubs, InnerContent(inner))
           ELSE /\ task' = [task EXCEPT ![u].pc[q] = "fetch",
                                        ![u].name[q] = << name >>,
                                        ![u].nameSubs[q] = << nameSubs >>,
                                        ![u].seg[q] = [NoSegments EXCEPT !.count = n]]
                /\ subOut' = SubOut("fetch", u, q, name, entry, EmptyBag, << >>, "-")
    /\ UNCHANGED << mustFilterByMapping, aborted, subscribed, syncVars, vecVars, mapVars >>

\* concatBuffers(list)
RECURSIVE ConcatBuffers(_)
ConcatBuffers(list) ==
    IF list = << >> THEN << >> ELSE Head(list) \o ConcatBuffers(Tail(list))

\* segments.push(inner.content); ++nSegments
StoreSegment_Push(seg, segNum, content) ==
    [seg EXCEPT !.arr[seg.nSegments] = << content >>, !.nSegments = @ + 1]

\* segments[segNum] = inner.content; ++nSegments
StoreSegment(seg, segNum, content) ==
    [seg EXCEPT !.arr[segNum] = << content >>, !.nSegments = @ + 1]

\* retrieveSegmented: one turn of the loop over fetching.unordered(), which
\* yields every segment of the object once, in any order; after the last
\* one, segments.length = nSegments, concatBuffers and the update of the
\* tables. decap returns what it returned for the first outer Data, since
\* name and nameSubs are set.
SegmentData(u, q, inner) ==
    /\ task[u].pc[q] = "fetch"
    /\ LET t == task[u]
           entry == MappingGet(t, q)
           segmentComp == inner[Len(inner)]
       IN  IF ~IsSegment(segmentComp)
           THEN /\ task' = [task EXCEPT ![u] = Settle([t EXCEPT !.pc[q] = "done"])]
                /\ subOut' = SubOut("error", u, q, << >>, entry, EmptyBag, << >>, "assert")
           ELSE LET segNum == AsSegment(segmentComp)
                    seg == [StoreSegment(t.seg[q], segNum, InnerContent(inner))
                               EXCEPT !.got = Append(@, segNum)]
                    list == [i \in 1 .. seg.nSegments |-> seg.arr[i - 1]]
                IN  /\ segNum < t.seg[q].count
                    /\ segNum \notin Yielded(t.seg[q])
                    /\ IF Yielded(seg) # 0 .. (seg.count - 1)
                       THEN /\ task' = [task EXCEPT ![u].seg[q] = seg]
                            /\ subOut' = SubOut("segment", u, q, t.name[q][1], entry,
                                                EmptyBag, << >>, "-")
                       ELSE IF \E i \in DOMAIN list : list[i] = Undefined
                       THEN /\ task' = [task EXCEPT ![u] =
                                           Settle([t EXCEPT !.pc[q] = "done"])]
                            /\ subOut' = SubOut("error", u, q, << >>, entry,
                                                EmptyBag, << >>, "concatBuffers")
                       ELSE TablesUpdate(u, q, t.name[q][1], t.nameSubs[q][1],
                                         ConcatBuffers([i \in DOMAIN list |-> list[i][1]]))
    /\ UNCHANGED << mustFilterByMapping, aborted, subscribed, syncVars, vecVars, mapVars >>

\* the "abort" listeners of the pending endpoint.consume and fetch calls
\* cancel their Interests, which makes the calls reject
CancelPending(t) ==
    [t EXCEPT !.st = IF @ = "mapping" THEN "mapcancel" ELSE @,
              !.pc = [q \in UpdateSeqs |->
                         IF t.pc[q] \in { "outer", "fetch" } THEN "cancel" ELSE t.pc[q]]]

\* SvSubscriber.close that also closes the SvSync instance
SubClose_StopsSync ==
    /\ aborted' = TRUE
    /\ task' = IF aborted THEN task ELSE [u \in Updates |-> CancelPending(task[u])]
    /\ subOut' = SubOut("close", "-", 0, << >>, NoEntry, EmptyBag, << >>, "-")
    /\ Record(Out("-", "subscriber.close", "-", 0, << >>, << >>, {}))
    /\ timer' = [e \in Engines |-> "none"]
    /\ producerClosed' = [e \in Engines |-> TRUE]
    /\ UNCHANGED << mustFilterByMapping, subscribed, own, aggregated,
                    verifying, lastHi, pubMax, probe, vecVars, mapVars >>
    /\ scheduled' = [e \in Engines |-> scheduled[e] \ { handle[e] }]
    /\ UNCHANGED handle

\* SvSubscriber.close: this.abort.abort()
SubClose ==
    /\ aborted' = TRUE
    /\ task' = IF aborted THEN task ELSE [u \in Updates |-> CancelPending(task[u])]
    /\ subOut' = SubOut("close", "-", 0, << >>, NoEntry, EmptyBag, << >>, "-")
    /\ Record(Out("-", "subscriber.close", "-", 0, << >>, << >>, {}))
    /\ UNCHANGED << mustFilterByMapping, subscribed, own, aggregated, timer,
                    producerClosed, verifying, lastHi, pubMax, probe, vecVars, mapVars >>
    /\ UNCHANGED << scheduled, handle >>

\* ------------------------------------------------------------------ SvSync
SyncInit ==
    /\ own = [e \in Engines |-> EmptyVector]
    /\ aggregated = [e \in Engines |-> Undefined]
    /\ timer = [e \in Engines |-> "none"]
    /\ scheduled = [e \in Engines |-> {}]
    /\ handle = [e \in Engines |-> 0]
    /\ producerClosed = [e \in Engines |-> FALSE]
    /\ verifying = [e \in Engines |-> {}]
    /\ out = NoOut
    /\ lastHi = [e \in Engines |-> EmptyVector]
    /\ pubMax = EmptyVector

\* resetTimer that never chooses the suppression delay
ResetTimer_AlwaysSteady(agg, immediate) ==
    IF immediate THEN "immediate" ELSE "steady"

\* resetTimer: clearTimeout, then setTimeout with the delay chosen from
\* immediate / this.aggregated.
ResetTimer(agg, immediate) ==
    IF immediate THEN "immediate"
    ELSE IF Defined(agg) THEN "suppression"
    ELSE "steady"

\* handlePublish: resetTimer(true)
HandlePublish(e) ==
    timer' = [timer EXCEPT ![e] = ResetTimer(aggregated[e], TRUE)]

\* seqNum setter without the n <= this.seqNum guard
SeqNumSet_NoGuard(e, id, n) ==
    /\ own' = [own EXCEPT ![e] = Set(own[e], id, n)]
    /\ pubMax' = IF probe THEN pubMax ELSE [pubMax EXCEPT ![id] = Max(pubMax[id], n)]
    /\ HandlePublish(e)
    /\ Record(TimerCalls(Out(e, "seqNum", id, n, << >>, << >>, {}), ResetTimerCalls))
    /\ UNCHANGED << aggregated, producerClosed, verifying, lastHi, probe, subVars, vecVars, mapVars >>
    /\ TimerLoop(e, ResetTimerCalls)

\* seqNum setter comparing with < instead of <=
SeqNumSet_StrictLess(e, id, n) ==
    /\ IF n < Get(own[e], id)
       THEN /\ UNCHANGED << own, timer, pubMax >>
            /\ Record(Out(e, "seqNum", id, n, << >>, << >>, {}))
       ELSE /\ own' = [own EXCEPT ![e] = Set(own[e], id, n)]
            /\ pubMax' = IF probe THEN pubMax ELSE [pubMax EXCEPT ![id] = Max(pubMax[id], n)]
            /\ HandlePublish(e)
            /\ Record(TimerCalls(Out(e, "seqNum", id, n, << >>, << >>, {}),
                                 ResetTimerCalls))
    /\ UNCHANGED << aggregated, producerClosed, verifying, lastHi, probe, subVars, vecVars, mapVars >>
    /\ TimerLoop(e, IF n < Get(own[e], id) THEN << >> ELSE ResetTimerCalls)

\* SvSyncNode.seqNum setter
SeqNumSet(e, id, n) ==
    /\ IF n <= Get(own[e], id)
       THEN /\ UNCHANGED << own, timer, pubMax >>
            /\ Record(Out(e, "seqNum", id, n, << >>, << >>, {}))
       ELSE /\ own' = [own EXCEPT ![e] = Set(own[e], id, n)]
            /\ pubMax' = IF probe THEN pubMax ELSE [pubMax EXCEPT ![id] = Max(pubMax[id], n)]
            /\ HandlePublish(e)
            /\ Record(TimerCalls(Out(e, "seqNum", id, n, << >>, << >>, {}),
                                 ResetTimerCalls))
    /\ UNCHANGED << aggregated, producerClosed, verifying, lastHi, probe, subVars, vecVars, mapVars >>
    /\ TimerLoop(e, IF n <= Get(own[e], id) THEN << >> ELSE ResetTimerCalls)

\* sendSyncInterest: the Interest name carries own; it reaches the
\* handleSyncInterest of every peer whose producer is open.
SendSyncInterest(sv, peers, pending) ==
    [r \in Engines |->
        IF r \in peers /\ ~producerClosed[r] THEN pending[r] \cup {sv} ELSE pending[r]]

\* A sync Interest from outside the modelled engines reaches the producer.
\* The environment sends the next one once the previous one left verification;
\* several handlers are in verification at once in the group.
ExternalInterest(e, recv) ==
    /\ ~producerClosed[e]
    /\ verifying[e] = {}
    /\ verifying' = [verifying EXCEPT ![e] = @ \cup {recv}]
    /\ Record(Out(e, "interest", "-", 0, << recv >>, << >>, {}))
    /\ UNCHANGED << own, aggregated, timer, producerClosed, lastHi, pubMax, probe, subVars, vecVars, mapVars >>
    /\ UNCHANGED << scheduled, handle >>

\* A sync Interest reaches the producer while the handler of another one is
\* still awaiting verifier.verify: the two handlers overlap.
OverlappingInterest(e, recv) ==
    /\ ~producerClosed[e]
    /\ Cardinality(verifying[e]) = 1
    /\ recv \notin verifying[e]
    /\ verifying' = [verifying EXCEPT ![e] = @ \cup {recv}]
    /\ Record(Out(e, "interest", "-", 0, << recv >>, << >>, {}))
    /\ UNCHANGED << own, aggregated, timer, producerClosed, lastHi, pubMax, probe, subVars, vecVars, mapVars >>
    /\ UNCHANGED << scheduled, handle >>

\* What stands in verifying[e] for a sync Interest whose state-vector
\* component SvStateVector.fromComponent cannot decode.
Malformed == [i \in Ids |-> 0 - 1]

\* Such an Interest reaches the producer.
MalformedInterest(e) ==
    /\ ~producerClosed[e]
    /\ verifying[e] = {}
    /\ verifying' = [verifying EXCEPT ![e] = @ \cup { Malformed }]
    /\ Record(Out(e, "interest", "-", 0, << Malformed >>, << >>, {}))
    /\ UNCHANGED << own, aggregated, timer, producerClosed, lastHi, pubMax, probe, subVars, vecVars, mapVars >>
    /\ UNCHANGED << scheduled, handle >>

\* a handler that restarts the timer before it throws
DecodeFail_Rearms(e) ==
    /\ Malformed \in verifying[e]
    /\ verifying' = [verifying EXCEPT ![e] = @ \ { Malformed }]
    /\ timer' = [timer EXCEPT ![e] = ResetTimer(aggregated[e], FALSE)]
    /\ Record(TimerCalls(Out(e, "malformed", "-", 0, << Malformed >>, << >>, {}),
                         ResetTimerCalls))
    /\ UNCHANGED << own, aggregated, producerClosed, lastHi, pubMax, probe, subVars, vecVars, mapVars >>
    /\ TimerLoop(e, ResetTimerCalls)

\* handleSyncInterest, verifier.verify resolved and SvStateVector.fromComponent
\* throws: the handler rejects before it read or wrote any field.
DecodeFail(e) ==
    /\ Malformed \in verifying[e]
    /\ verifying' = [verifying EXCEPT ![e] = @ \ { Malformed }]
    /\ Record(Out(e, "malformed", "-", 0, << Malformed >>, << >>, {}))
    /\ UNCHANGED << own, aggregated, timer, producerClosed, lastHi, pubMax, probe, subVars, vecVars, mapVars >>
    /\ UNCHANGED << scheduled, handle >>

\* a handler that goes on to merge although verifier.verify rejected
VerifyReject_Merges(e, recv) ==
    /\ recv \in verifying[e]
    /\ verifying' = [verifying EXCEPT ![e] = @ \ {recv}]
    /\ own' = [own EXCEPT ![e] = MergeFrom(own[e], recv)]
    /\ Record(Out(e, "reject", "-", 0, << recv >>, << >>, {}))
    /\ UNCHANGED << aggregated, timer, producerClosed, lastHi, pubMax, probe, subVars, vecVars, mapVars >>
    /\ UNCHANGED << scheduled, handle >>

\* handleSyncInterest, verifier.verify rejected: the handler throws.
VerifyReject(e, recv) ==
    /\ recv \in verifying[e]
    /\ verifying' = [verifying EXCEPT ![e] = @ \ {recv}]
    /\ Record(Out(e, "reject", "-", 0, << recv >>, << >>, {}))
    /\ UNCHANGED << own, aggregated, timer, producerClosed, lastHi, pubMax, probe, subVars, vecVars, mapVars >>
    /\ UNCHANGED << scheduled, handle >>

\* handleSyncInterest computing ourOlder after own.mergeFrom(recv)
HandleSyncInterest_DiffAfterMerge(e, recv) ==
    /\ recv \in verifying[e]
    /\ LET ourOlder == ListOlderThan(MergeFrom(own[e], recv), recv)
           ourNewer == ListOlderThan(recv, own[e])
       IN  /\ own' = [own EXCEPT ![e] = MergeFrom(own[e], recv)]
           /\ Record(TimerCalls(Out(e, "recv", "-", 0, << recv >>, << >>, ourOlder),
                                IF Defined(aggregated[e]) THEN << >>
                                ELSE ResetTimerCalls))
           /\ lastHi' = IF probe
                        THEN [lastHi EXCEPT ![e] =
                                [i \in Ids |-> HiOf(ourOlder, i, lastHi[e][i])]]
                        ELSE lastHi
           /\ IF Defined(aggregated[e])
              THEN /\ aggregated' = [aggregated EXCEPT ![e] =
                                        << MergeFrom(aggregated[e][1], recv) >>]
                   /\ UNCHANGED timer
              ELSE IF ourNewer # {}
              THEN /\ aggregated' = [aggregated EXCEPT ![e] = << recv >>]
                   /\ timer' = [timer EXCEPT ![e] = ResetTimer(<< recv >>, FALSE)]
              ELSE /\ UNCHANGED aggregated
                   /\ timer' = [timer EXCEPT ![e] = ResetTimer(aggregated[e], FALSE)]
    /\ verifying' = [verifying EXCEPT ![e] = @ \ {recv}]
    /\ UNCHANGED << producerClosed, pubMax, probe, subVars, vecVars, mapVars >>
    /\ TimerLoop(e, IF Defined(aggregated[e]) THEN << >> ELSE ResetTimerCalls)

\* handleSyncInterest without own.mergeFrom(recv)
HandleSyncInterest_NoMerge(e, recv) ==
    /\ recv \in verifying[e]
    /\ LET ourOlder == ListOlderThan(own[e], recv)
           ourNewer == ListOlderThan(recv, own[e])
       IN  /\ own' = own
           /\ Record(TimerCalls(Out(e, "recv", "-", 0, << recv >>, << >>, ourOlder),
                                IF Defined(aggregated[e]) THEN << >>
                                ELSE ResetTimerCalls))
           /\ lastHi' = IF probe
                        THEN [lastHi EXCEPT ![e] =
                                [i \in Ids |-> HiOf(ourOlder, i, lastHi[e][i])]]
                        ELSE lastHi
           /\ IF Defined(aggregated[e])
              THEN /\ aggregated' = [aggregated EXCEPT ![e] =
                                        << MergeFrom(aggregated[e][1], recv) >>]
                   /\ UNCHANGED timer
              ELSE IF ourNewer # {}
              THEN /\ aggregated' = [aggregated EXCEPT ![e] = << recv >>]
                   /\ timer' = [timer EXCEPT ![e] = ResetTimer(<< recv >>, FALSE)]
              ELSE /\ UNCHANGED aggregated
                   /\ timer' = [timer EXCEPT ![e] = ResetTimer(aggregated[e], FALSE)]
    /\ verifying' = [verifying EXCEPT ![e] = @ \ {recv}]
    /\ UNCHANGED << producerClosed, pubMax, probe, subVars, vecVars, mapVars >>
    /\ TimerLoop(e, IF Defined(aggregated[e]) THEN << >> ELSE ResetTimerCalls)

\* a handler that enters Suppression when own is behind the received vector
HandleSyncInterest_OlderDecides(e, recv) ==
    /\ recv \in verifying[e]
    /\ LET ourOlder == ListOlderThan(own[e], recv)
       IN  /\ own' = [own EXCEPT ![e] = MergeFrom(own[e], recv)]
           /\ Record(TimerCalls(Out(e, "recv", "-", 0, << recv >>, << >>, ourOlder),
                                IF Defined(aggregated[e]) THEN << >>
                                ELSE ResetTimerCalls))
           /\ lastHi' = IF probe
                        THEN [lastHi EXCEPT ![e] =
                                [i \in Ids |-> HiOf(ourOlder, i, lastHi[e][i])]]
                        ELSE lastHi
           /\ IF Defined(aggregated[e])
              THEN /\ aggregated' = [aggregated EXCEPT ![e] =
                                        << MergeFrom(aggregated[e][1], recv) >>]
                   /\ UNCHANGED timer
              ELSE IF ourOlder # {}
              THEN /\ aggregated' = [aggregated EXCEPT ![e] = << recv >>]
                   /\ timer' = [timer EXCEPT ![e] = ResetTimer(<< recv >>, FALSE)]
              ELSE /\ UNCHANGED aggregated
                   /\ timer' = [timer EXCEPT ![e] = ResetTimer(aggregated[e], FALSE)]
    /\ verifying' = [verifying EXCEPT ![e] = @ \ {recv}]
    /\ UNCHANGED << producerClosed, pubMax, probe, subVars, vecVars, mapVars >>
    /\ TimerLoop(e, IF Defined(aggregated[e]) THEN << >> ELSE ResetTimerCalls)

\* a handler that calls resetTimer in Suppression too
HandleSyncInterest_RearmInSuppression(e, recv) ==
    /\ recv \in verifying[e]
    /\ LET ourOlder == ListOlderThan(own[e], recv)
           ourNewer == ListOlderThan(recv, own[e])
       IN  /\ own' = [own EXCEPT ![e] = MergeFrom(own[e], recv)]
           /\ Record(TimerCalls(Out(e, "recv", "-", 0, << recv >>, << >>, ourOlder),
                                ResetTimerCalls))
           /\ lastHi' = IF probe
                        THEN [lastHi EXCEPT ![e] =
                                [i \in Ids |-> HiOf(ourOlder, i, lastHi[e][i])]]
                        ELSE lastHi
           /\ IF Defined(aggregated[e])
              THEN /\ aggregated' = [aggregated EXCEPT ![e] =
                                        << MergeFrom(aggregated[e][1], recv) >>]
                   /\ timer' = [timer EXCEPT ![e] = ResetTimer(aggregated[e], FALSE)]
              ELSE IF ourNewer # {}
              THEN /\ aggregated' = [aggregated EXCEPT ![e] = << recv >>]
                   /\ timer' = [timer EXCEPT ![e] = ResetTimer(<< recv >>, FALSE)]
              ELSE /\ UNCHANGED aggregated
                   /\ timer' = [timer EXCEPT ![e] = ResetTimer(aggregated[e], FALSE)]
    /\ verifying' = [verifying EXCEPT ![e] = @ \ {recv}]
    /\ UNCHANGED << producerClosed, pubMax, probe, subVars, vecVars, mapVars >>
    /\ TimerLoop(e, ResetTimerCalls)

\* a handler that yields between the diff and the merge: the handler of the
\* other Interest in verification runs to its end in between
HandleSyncInterest_Interleaved(e, recv) ==
    /\ recv \in verifying[e]
    /\ LET others == verifying[e] \ {recv}
           other == IF others = {} THEN EmptyVector ELSE CHOOSE o \in others : TRUE
           ourOlder == ListOlderThan(own[e], recv)
           ourNewer == ListOlderThan(recv, own[e])
       IN  /\ own' = [own EXCEPT ![e] = MergeFrom(MergeFrom(own[e], other), recv)]
           /\ Record(TimerCalls(Out(e, "recv", "-", 0, << recv >>, << >>, ourOlder),
                                IF Defined(aggregated[e]) THEN << >>
                                ELSE ResetTimerCalls))
           /\ lastHi' = IF probe
                        THEN [lastHi EXCEPT ![e] =
                                [i \in Ids |-> HiOf(ourOlder, i, lastHi[e][i])]]
                        ELSE lastHi
           /\ IF Defined(aggregated[e])
              THEN /\ aggregated' = [aggregated EXCEPT ![e] =
                                        << MergeFrom(aggregated[e][1], recv) >>]
                   /\ UNCHANGED timer
              ELSE IF ourNewer # {}
              THEN /\ aggregated' = [aggregated EXCEPT ![e] = << recv >>]
                   /\ timer' = [timer EXCEPT ![e] = ResetTimer(<< recv >>, FALSE)]
              ELSE /\ UNCHANGED aggregated
                   /\ timer' = [timer EXCEPT ![e] = ResetTimer(aggregated[e], FALSE)]
    /\ verifying' = [verifying EXCEPT ![e] = {}]
    /\ UNCHANGED << producerClosed, pubMax, probe, subVars, vecVars, mapVars >>
    /\ TimerLoop(e, IF Defined(aggregated[e]) THEN << >> ELSE ResetTimerCalls)

\* handleSyncInterest, after verifier.verify resolved.
HandleSyncInterest(e, recv) ==
    /\ recv \in verifying[e]
    /\ LET ourOlder == ListOlderThan(own[e], recv)
           ourNewer == ListOlderThan(recv, own[e])
       IN  /\ own' = [own EXCEPT ![e] = MergeFrom(own[e], recv)]
           /\ Record(TimerCalls(Out(e, "recv", "-", 0, << recv >>, << >>, ourOlder),
                                IF Defined(aggregated[e]) THEN << >>
                                ELSE ResetTimerCalls))
           /\ lastHi' = IF probe
                        THEN [lastHi EXCEPT ![e] =
                                [i \in Ids |-> HiOf(ourOlder, i, lastHi[e][i])]]
                        ELSE lastHi
           /\ IF Defined(aggregated[e])
              THEN /\ aggregated' = [aggregated EXCEPT ![e] =
                                        << MergeFrom(aggregated[e][1], recv) >>]
                   /\ UNCHANGED timer
              ELSE IF ourNewer # {}
              THEN /\ aggregated' = [aggregated EXCEPT ![e] = << recv >>]
                   /\ timer' = [timer EXCEPT ![e] = ResetTimer(<< recv >>, FALSE)]
              ELSE /\ UNCHANGED aggregated
                   /\ timer' = [timer EXCEPT ![e] = ResetTimer(aggregated[e], FALSE)]
    /\ verifying' = [verifying EXCEPT ![e] = @ \ {recv}]
    /\ UNCHANGED << producerClosed, pubMax, probe, subVars, vecVars, mapVars >>
    /\ TimerLoop(e, IF Defined(aggregated[e]) THEN << >> ELSE ResetTimerCalls)

\* handleTimer that sends whatever aggregated holds
HandleTimer_AlwaysSends(e, peers) ==
    /\ timer[e] # "none"
    /\ LET send == TRUE
       IN  /\ out' = TimerCalls(Out(e, "timer", "-", 0, << >>,
                                    IF send THEN << own[e] >> ELSE << >>, {}),
                                ResetTimerCalls)
           /\ verifying' = IF send THEN SendSyncInterest(own[e], peers, verifying)
                           ELSE verifying
    /\ aggregated' = [aggregated EXCEPT ![e] = Undefined]
    /\ timer' = [timer EXCEPT ![e] = ResetTimer(Undefined, FALSE)]
    /\ UNCHANGED << own, producerClosed, lastHi, pubMax, probe, subVars, vecVars, mapVars >>
    /\ TimerFires(e, ResetTimerCalls)

\* handleTimer that sends when own is behind aggregated
HandleTimer_BehindSends(e, peers) ==
    /\ timer[e] # "none"
    /\ LET send == IF Defined(aggregated[e])
                   THEN ListOlderThan(own[e], aggregated[e][1]) # {}
                   ELSE TRUE
       IN  /\ out' = TimerCalls(Out(e, "timer", "-", 0, << >>,
                                    IF send THEN << own[e] >> ELSE << >>, {}),
                                ResetTimerCalls)
           /\ verifying' = IF send THEN SendSyncInterest(own[e], peers, verifying)
                           ELSE verifying
    /\ aggregated' = [aggregated EXCEPT ![e] = Undefined]
    /\ timer' = [timer EXCEPT ![e] = ResetTimer(Undefined, FALSE)]
    /\ UNCHANGED << own, producerClosed, lastHi, pubMax, probe, subVars, vecVars, mapVars >>
    /\ TimerFires(e, ResetTimerCalls)

\* handleTimer that does not call resetTimer
HandleTimer_NoRearm(e, peers) ==
    /\ timer[e] # "none"
    /\ LET send == IF Defined(aggregated[e])
                   THEN ListOlderThan(aggregated[e][1], own[e]) # {}
                   ELSE TRUE
       IN  /\ out' = Out(e, "timer", "-", 0, << >>,
                         IF send THEN << own[e] >> ELSE << >>, {})
           /\ verifying' = IF send THEN SendSyncInterest(own[e], peers, verifying)
                           ELSE verifying
    /\ aggregated' = [aggregated EXCEPT ![e] = Undefined]
    /\ timer' = [timer EXCEPT ![e] = "none"]
    /\ UNCHANGED << own, producerClosed, lastHi, pubMax, probe, subVars, vecVars, mapVars >>
    /\ TimerFires(e, << >>)

\* handleTimer: the pending timeout expires.
HandleTimer(e, peers) ==
    /\ timer[e] # "none"
    /\ LET send == IF Defined(aggregated[e])
                   THEN ListOlderThan(aggregated[e][1], own[e]) # {}
                   ELSE TRUE
       IN  /\ out' = TimerCalls(Out(e, "timer", "-", 0, << >>,
                                    IF send THEN << own[e] >> ELSE << >>, {}),
                                ResetTimerCalls)
           /\ verifying' = IF send THEN SendSyncInterest(own[e], peers, verifying)
                           ELSE verifying
    /\ aggregated' = [aggregated EXCEPT ![e] = Undefined]
    /\ timer' = [timer EXCEPT ![e] = ResetTimer(Undefined, FALSE)]
    /\ UNCHANGED << own, producerClosed, lastHi, pubMax, probe, subVars, vecVars, mapVars >>
    /\ TimerFires(e, ResetTimerCalls)

\* close: clearTimeout(this.timer); this.producer.close()
Close(e) ==
    /\ timer' = [timer EXCEPT ![e] = "none"]
    /\ producerClosed' = [producerClosed EXCEPT ![e] = TRUE]
    /\ Record(TimerCalls(Out(e, "close", "-", 0, << >>, << >>, {}), CloseTimerCalls))
    /\ UNCHANGED << own, aggregated, verifying, lastHi, pubMax, probe, subVars, vecVars, mapVars >>
    /\ TimerLoop(e, CloseTimerCalls)

Init ==
    /\ SyncInit
    /\ probe = TRUE
    /\ SubscriberIdle
    /\ VecIdle
    /\ MapIdle

\* One engine; its peers are the environment, which may send any vector.
Next ==
    \/ \E id \in Ids, n \in SeqNums : SeqNumSet(Solo, id, n)
    \/ \E recv \in Vectors : ExternalInterest(Solo, recv)
    \/ \E recv \in Vectors : VerifyReject(Solo, recv)
    \/ \E recv \in Vectors : HandleSyncInterest(Solo, recv)
    \/ HandleTimer(Solo, {})
    \/ Close(Solo)

Spec == Init /\ [][Next]_vars

\* A closed sync group: every engine stays open, every sync Interest sent is
\* handed to the handler of every other engine and passes verification.
GroupVectors == [Ids -> 0 .. GroupMaxSeq]

\* In the group every engine publishes under its own node id.
NodeId == [e \in Engines |-> IF e = Solo THEN "A" ELSE "B"]

GroupNext ==
    \/ \E e \in Engines, n \in 0 .. GroupMaxSeq : SeqNumSet(e, NodeId[e], n)
    \/ \E e \in Engines, recv \in GroupVectors : HandleSyncInterest(e, recv)
    \/ \E e \in Engines : HandleTimer(e, Engines \ {e})

GroupFairness ==
    /\ \A e \in Engines : WF_vars(HandleTimer(e, Engines \ {e}))
    /\ \A e \in Engines, recv \in GroupVectors : WF_vars(HandleSyncInterest(e, recv))

GroupInit ==
    /\ SyncInit
    /\ probe = FALSE
    /\ SubscriberIdle
    /\ VecIdle
    /\ MapIdle

GroupSpec == GroupInit /\ [][GroupNext]_vars /\ GroupFairness

TypeOK ==
    /\ own \in [Engines -> Vectors]
    /\ \A e \in Engines : aggregated[e] = Undefined \/ aggregated[e][1] \in Vectors
    /\ timer \in [Engines -> TimerKinds]
    /\ producerClosed \in [Engines -> BOOLEAN]
    /\ verifying \in [Engines -> SUBSET (Vectors \cup { Malformed })]

SubInit ==
    /\ SyncInit
    /\ probe = TRUE
    /\ mustFilterByMapping \in BOOLEAN
    /\ subscribed = {}
    /\ aborted = FALSE
    /\ VecIdle
    /\ MapIdle
    /\ task = [u \in Updates |-> IdleTask]
    /\ subOut = NoSubOut

\* The subscriber; the SyncUpdates of the engine are its input.
SubNext ==
    \/ \E sub \in Subs : Subscribe(sub)
    \/ \E u \in OneUpdate, id \in Ids, lo \in UpdateSeqs, hi \in UpdateSeqs :
          HandleSyncUpdate(u, id, lo, hi)
    \/ \E u \in OneUpdate, m \in [UpdateSeqs -> Entries] : RetrieveMapping(u, m)
    \/ \E u \in OneUpdate, q \in UpdateSeqs : DispatchUpdate(u, q)
    \/ \E u \in OneUpdate, q \in UpdateSeqs, cause \in FailCauses : DispatchFail(u, q, cause)
    \/ \E u \in OneUpdate, q \in UpdateSeqs, inner \in InnerNames :
          DispatchData(u, q, inner, 0)

SubSpec == SubInit /\ [][SubNext]_vars

\* subscriptions registered before the first SyncUpdate arrives
StaticSubs == { { SubPublisher }, { SubPrefix, SubFilterTX }, Subs }

StaticInit ==
    /\ SyncInit
    /\ probe = TRUE
    /\ VecIdle
    /\ MapIdle
    /\ mustFilterByMapping = FALSE
    /\ subscribed \in StaticSubs
    /\ aborted = FALSE
    /\ task = [u \in Updates |-> IdleTask]
    /\ subOut = NoSubOut

\* what the first outer Data of a sequence number can be: the whole
\* publication, or a segment of an object of n segments
OuterData ==
    { << inner, 0 >> : inner \in InnerNames }
        \cup { << << "t", "x", Version0, SegmentComp(p[1]) >>, p[2] >> :
                  p \in { r \in SegmentNums \X (1 .. MaxSegments) : r[1] < r[2] } }

\* what fetch can yield: a segment, or a Data without segment component
FetchedData == SegmentNames \cup { << "t", "x" >> }

\* The subscriber with segmented publications and close(); every SyncUpdate
\* is about one sequence number.
SegNext ==
    \/ \E u \in OneUpdate, id \in Ids, q \in UpdateSeqs : HandleSyncUpdate(u, id, q, q)
    \/ \E u \in OneUpdate, m \in [UpdateSeqs -> Entries] : RetrieveMapping(u, m)
    \/ \E u \in OneUpdate, q \in UpdateSeqs : DispatchUpdate(u, q)
    \/ \E u \in OneUpdate, q \in UpdateSeqs, cause \in FailCauses : DispatchFail(u, q, cause)
    \/ \E u \in OneUpdate, q \in UpdateSeqs, d \in OuterData :
          DispatchData(u, q, d[1], d[2])
    \/ \E u \in OneUpdate, q \in UpdateSeqs, inner \in FetchedData :
          SegmentData(u, q, inner)
    \/ SubClose

SegSpec == StaticInit /\ [][SegNext]_vars

\* Two SyncUpdates in progress at the same time; the mapping Data of a
\* SyncUpdate names every sequence number /t/x, or it does not arrive.
IsoNext ==
    \/ \E u \in Updates, id \in Ids, lo \in UpdateSeqs, hi \in UpdateSeqs :
          HandleSyncUpdate(u, id, lo, hi)
    \/ \E u \in Updates, entry \in { << "t", "x" >>, NoEntry } :
          RetrieveMapping(u, [q \in UpdateSeqs |->
                                 IF task[u].lo <= q /\ q <= task[u].hi
                                 THEN entry ELSE NoEntry])
    \/ \E u \in Updates, q \in UpdateSeqs : DispatchUpdate(u, q)
    \/ \E u \in Updates, q \in UpdateSeqs, cause \in FailCauses : DispatchFail(u, q, cause)
    \/ \E u \in Updates, q \in UpdateSeqs, inner \in TopicNames :
          DispatchData(u, q, inner, 0)

IsoInit ==
    /\ SyncInit
    /\ probe = TRUE
    /\ VecIdle
    /\ MapIdle
    /\ mustFilterByMapping = FALSE
    /\ subscribed = { SubPublisher, SubPrefix }
    /\ aborted = FALSE
    /\ task = [u \in Updates |-> IdleTask]
    /\ subOut = NoSubOut

IsoSpec == IsoInit /\ [][IsoNext]_vars

\* One engine and the subscriber that listens to it, which the application
\* may close; the sequence numbers are those of the group.
CloseNext ==
    \/ \E id \in Ids, n \in 0 .. GroupMaxSeq : SeqNumSet(Solo, id, n)
    \/ \E recv \in GroupVectors : ExternalInterest(Solo, recv)
    \/ \E recv \in GroupVectors : VerifyReject(Solo, recv)
    \/ \E recv \in GroupVectors : HandleSyncInterest(Solo, recv)
    \/ HandleTimer(Solo, {})
    \/ Close(Solo)
    \/ SubClose

CloseSpec == Init /\ [][CloseNext]_vars

\* One engine whose pending timeout expires eventually; the sequence numbers
\* are those of the group.
TimerNext ==
    \/ \E id \in Ids, n \in 0 .. GroupMaxSeq : SeqNumSet(Solo, id, n)
    \/ \E recv \in GroupVectors : ExternalInterest(Solo, recv)
    \/ \E recv \in GroupVectors : VerifyReject(Solo, recv)
    \/ \E recv \in GroupVectors : HandleSyncInterest(Solo, recv)
    \/ HandleTimer(Solo, {})
    \/ Close(Solo)

TimerFairness == WF_vars(HandleTimer(Solo, {}))

TimerSpec == Init /\ [][TimerNext]_vars /\ TimerFairness

\* One engine that is also sent sync Interests it cannot decode.
MalformedNext ==
    \/ TimerNext
    \/ MalformedInterest(Solo)
    \/ DecodeFail(Solo)

MalformedSpec == Init /\ [][MalformedNext]_vars

\* One engine with up to two handleSyncInterest calls awaiting verification
\* at once; they resume in any order.
OverlapNext ==
    \/ \E id \in Ids, n \in 0 .. GroupMaxSeq : SeqNumSet(Solo, id, n)
    \/ \E recv \in GroupVectors : ExternalInterest(Solo, recv)
    \/ \E recv \in GroupVectors : OverlappingInterest(Solo, recv)
    \/ \E recv \in GroupVectors : VerifyReject(Solo, recv)
    \/ \E recv \in GroupVectors : HandleSyncInterest(Solo, recv)
    \/ HandleTimer(Solo, {})
    \/ Close(Solo)

OverlapSpec == Init /\ [][OverlapNext]_vars

\* ------------------------------------------------ SvStateVector on its own
Registers == { "a", "b", "c" }

VecInit ==
    /\ SyncInit
    /\ probe = TRUE
    /\ SubscriberIdle
    /\ vec \in [Registers -> Vectors]
    /\ vecOut = NoVecOut
    /\ MapIdle

\* vec[x].mergeFrom(vec[y])
VecMergeFrom(x, y) ==
    /\ vec' = [vec EXCEPT ![x] = MergeFrom(vec[x], vec[y])]
    /\ vecOut' = [op |-> "mergeFrom", this |-> x, other |-> y, ranges |-> {}]
    /\ UNCHANGED << syncVars, subVars, mapVars >>

\* vec[x].listOlderThan(vec[y])
VecListOlderThan(x, y) ==
    /\ vecOut' = [op |-> "listOlderThan", this |-> x, other |-> y,
                  ranges |-> ListOlderThan(vec[x], vec[y])]
    /\ UNCHANGED << vec, syncVars, subVars, mapVars >>

VecNext ==
    \/ \E x \in Registers, y \in Registers : VecMergeFrom(x, y)
    \/ \E x \in Registers, y \in Registers : VecListOlderThan(x, y)

VecSpec == VecInit /\ [][VecNext]_vars

\* ------------------------------------------------ retrieveMapping on its own
\* SyncUpdate.seqNums(): loSeqNum, loSeqNum + 1, ..., hiSeqNum
SeqNumsOf(lo, hi) == [i \in 1 .. (hi - lo + 1) |-> lo + i - 1]

\* batch(size): the items are collected into arrays of size items, an array
\* is passed on when it is full, and what is left at the end is passed on
\* when it is not empty
RECURSIVE Batch(_, _, _)
Batch(items, size, cur) ==
    IF items = << >>
    THEN IF cur = << >> THEN << >> ELSE << cur >>
    ELSE LET next == Append(cur, Head(items))
         IN  IF Len(next) = size
             THEN << next >> \o Batch(Tail(items), size, << >>)
             ELSE Batch(Tail(items), size, next)

\* ranges of size sequence numbers each, the last one not cut at hi
MappingRanges_FixedStride(lo, hi, size) ==
    [k \in 1 .. ((hi - lo) \div size + 1) |->
        << lo + (k - 1) * size, lo + k * size - 1 >>]

\* loSeqNum = range[0], hiSeqNum = range.at(-1) of every batch
MappingRanges(lo, hi, size) ==
    LET batches == Batch(SeqNumsOf(lo, hi), size, << >>)
    IN  [k \in 1 .. Len(batches) |->
            << batches[k][1], batches[k][Len(batches[k])] >>]

MapSeqs == 1 .. MaxMapSeq

\* retrieveMapping(update): transform(Infinity, ...) sends the mapping
\* Interest of every batch without waiting for another one
RetrieveMappingStart(lo, hi) ==
    /\ mapRun.st = "idle"
    /\ lo <= hi
    /\ LET reqs == MappingRanges(lo, hi, mappingBatch)
       IN  mapRun' = [NoMapRun EXCEPT
                        !.st = "running", !.lo = lo, !.hi = hi, !.reqs = reqs,
                        !.resp = [k \in DOMAIN reqs |-> "pending"],
                        !.errors = [k \in DOMAIN reqs |-> 0]]
    /\ UNCHANGED << mappingBatch, syncVars, subVars, vecVars >>

\* the mapping Data of batch k arrives and passes the verifier; mappingEVD
\* sets the entries it carries
MappingData(k, entries) ==
    /\ mapRun.st = "running"
    /\ k \in DOMAIN mapRun.resp
    /\ mapRun.resp[k] = "pending"
    /\ entries \subseteq mapRun.reqs[k][1] .. mapRun.reqs[k][2]
    /\ mapRun' = [mapRun EXCEPT !.resp[k] = "data", !.m = @ \cup entries]
    /\ UNCHANGED << mappingBatch, syncVars, subVars, vecVars >>

\* what makes the try block of a batch throw: endpoint.consume rejects
\* (timeout, Nack), the mapping verifier rejects the Data, mappingEVD.decode
\* throws after it has set the entries that came before the malformed one
MapFailCauses == { "rejected", "verify", "decode" }

\* a failed batch that makes retrieveMapping throw
MappingFail_Throws(k, cause, entries) ==
    /\ mapRun.st = "running"
    /\ k \in DOMAIN mapRun.resp
    /\ mapRun.resp[k] = "pending"
    /\ entries \subseteq mapRun.reqs[k][1] .. mapRun.reqs[k][2]
    /\ entries # mapRun.reqs[k][1] .. mapRun.reqs[k][2]
    /\ cause # "decode" => entries = {}
    /\ mapRun' = [mapRun EXCEPT !.st = "thrown", !.resp[k] = "failed",
                                !.m = @ \cup entries]
    /\ UNCHANGED << mappingBatch, syncVars, subVars, vecVars >>

\* the catch block of a batch: emit("error", ...)
MappingFail(k, cause, entries) ==
    /\ mapRun.st = "running"
    /\ k \in DOMAIN mapRun.resp
    /\ mapRun.resp[k] = "pending"
    /\ entries \subseteq mapRun.reqs[k][1] .. mapRun.reqs[k][2]
    /\ entries # mapRun.reqs[k][1] .. mapRun.reqs[k][2]
    /\ cause # "decode" => entries = {}
    /\ mapRun' = [mapRun EXCEPT !.resp[k] = "failed", !.errors[k] = @ + 1,
                                !.m = @ \cup entries]
    /\ UNCHANGED << mappingBatch, syncVars, subVars, vecVars >>

\* every batch is through: retrieveMapping returns m and handleSyncUpdate
\* starts the pipeline of dispatchUpdate calls
RetrieveMappingReturn ==
    /\ mapRun.st = "running"
    /\ \A k \in DOMAIN mapRun.resp : mapRun.resp[k] # "pending"
    /\ mapRun' = [mapRun EXCEPT !.st = "dispatch"]
    /\ UNCHANGED << mappingBatch, syncVars, subVars, vecVars >>

\* dispatchUpdate(update.id, publisherSubs, seqNum, mapping) is called
DispatchSeqNum(q) ==
    /\ mapRun.st = "dispatch"
    /\ mapRun.lo <= q /\ q <= mapRun.hi
    /\ \A d \in mapRun.dispatched : d[1] # q
    /\ mapRun' = [mapRun EXCEPT !.dispatched = @ \cup { << q, q \in mapRun.m >> }]
    /\ UNCHANGED << mappingBatch, syncVars, subVars, vecVars >>

\* the pipeline of handleSyncUpdate is through
HandleSyncUpdateReturn ==
    /\ mapRun.st = "dispatch"
    /\ { d[1] : d \in mapRun.dispatched } = mapRun.lo .. mapRun.hi
    /\ mapRun' = NoMapRun
    /\ UNCHANGED << mappingBatch, syncVars, subVars, vecVars >>

MapInit ==
    /\ SyncInit
    /\ probe = TRUE
    /\ SubscriberIdle
    /\ VecIdle
    /\ mappingBatch \in 1 .. MaxBatch
    /\ mapRun = NoMapRun

MapNext ==
    \/ \E lo \in MapSeqs, hi \in MapSeqs : RetrieveMappingStart(lo, hi)
    \/ \E k \in MapSeqs, entries \in SUBSET MapSeqs : MappingData(k, entries)
    \/ \E k \in MapSeqs, cause \in MapFailCauses, entries \in SUBSET MapSeqs :
          MappingFail(k, cause, entries)
    \/ RetrieveMappingReturn
    \/ \E q \in MapSeqs : DispatchSeqNum(q)
    \/ HandleSyncUpdateReturn

MapSpec == MapInit /\ [][MapNext]_vars

\* ------------------------------------------------------------------ claims

Converged == \A e \in Engines : own[e] = pubMax

\* C1: in a closed group of open engines with reliable delivery and fair
\* timers, once publishes stop every own vector holds, for every id, the
\* highest sequence number ever published.
C1_EventualConsistency == <>[]Converged

C1_Witness ==
    /\ \E id \in Ids : pubMax[id] > 0
    /\ \E e1 \in Engines, e2 \in Engines :
          e1 # e2 /\ own[e1] # EmptyVector /\ own[e2] # EmptyVector /\ own[e1] # own[e2]

\* C2: the value stored in own for a publisher id never decreases.
C2_OwnMonotone ==
    [][\A e \in Engines, id \in Ids : own'[e][id] >= own[e][id]]_vars

\* an inbound vector that is behind own on A was handled
C2_Witness ==
    /\ out.act = "recv"
    /\ out.recv[1]["A"] < own[out.eng]["A"]

\* C3: once a publish armed the zero-delay timer of an open engine, the
\* timer stays zero-delay until it fires, and that firing broadcasts own.
C3_PromptPropagation ==
    [][\A e \in Engines :
         (timer[e] = "immediate" /\ ~producerClosed'[e])
            => \/ timer'[e] = "immediate"
               \/ out'.act = "timer" /\ out'.eng = e /\ out'.sent = << own[e] >>]_vars

\* C4: handling an accepted sync Interest carrying R emits exactly the
\* updates (own(id)+1 .. R(id)) for the ids with own(id) < R(id), own taken
\* before the merge; no other event emits updates.
C4_UpdatesOnAccept ==
    [][IF out'.act = "recv"
       THEN out'.updates =
              { [id |-> i, loSeqNum |-> own[out'.eng][i] + 1,
                 hiSeqNum |-> out'.recv[1][i]] :
                  i \in { j \in Ids : own[out'.eng][j] < out'.recv[1][j] } }
       ELSE out'.updates = {}]_vars

C4_Witness ==
    /\ out.act = "recv"
    /\ out.updates = { [id |-> "A", loSeqNum |-> 1, hiSeqNum |-> 1] }

\* C5: seqNum = n with n <= the current value changes nothing and sends
\* nothing.
C5_SetNotGreaterIsNoop ==
    [][(out'.act = "seqNum" /\ out'.n <= own[out'.eng][out'.id])
          => /\ own' = own
             /\ aggregated' = aggregated
             /\ timer' = timer
             /\ verifying' = verifying
             /\ out'.sent = << >>]_vars

\* a seqNum assignment that did not arm the zero-delay timer
C5_Witness ==
    /\ out.act = "seqNum"
    /\ out.n > 0
    /\ out.n <= own[out.eng][out.id]
    /\ timer[out.eng] = "suppression"

\* C6: a sync Interest rejected by the verifier has no effect.
C6_RejectNoEffect ==
    [][out'.act = "reject"
          => /\ own' = own
             /\ aggregated' = aggregated
             /\ timer' = timer
             /\ lastHi' = lastHi
             /\ out'.updates = {}]_vars

\* a rejected Interest carried a vector ahead of own
C6_Witness ==
    /\ out.act = "reject"
    /\ \E id \in Ids : out.recv[1][id] > own[out.eng][id]
    /\ timer[out.eng] = "steady"

\* C7: after close the engine sends no sync Interest and merges no inbound
\* vector.
C7_NoGossipAfterClose ==
    [][\A e \in Engines :
         (producerClosed[e] /\ out'.eng = e)
            => out'.sent = << >> /\ out'.act # "recv"]_vars

\* C8: per publisher id, the hiSeqNum of emitted SyncUpdates never decreases.
C8_HiSeqNumMonotone ==
    [][\A u \in out'.updates : u.hiSeqNum >= lastHi[out'.eng][u.id]]_vars

\* an update for A was emitted after sequence number 1 of A was known
C8_Witness ==
    /\ out.act = "recv"
    /\ \E u \in out.updates : u.id = "A" /\ u.loSeqNum = 2 /\ u.hiSeqNum = 2

AlwaysFalseFilter(sub) == sub.kind = "prefix" /\ sub.hasFilter /\ sub.accept = {}

C10_MustFilterByMapping ==
    mustFilterByMapping
        => \A sub \in subOut.delivered \cap subOut.known :
              sub.hasFilter => (subOut.entry # NoEntry /\ subOut.entry \in sub.accept)

\* C11: an outer request for a sequence number is issued only when a
\* publisher-scoped subscription for the id exists or some name-prefix
\* subscription matches the mapping entry of the sequence number and accepts
\* it.
C11_CostAvoidance ==
    subOut.act = "outer"
        => \/ PublisherSubsList(task[subOut.upd].id) # {}
           \/ /\ subOut.entry # NoEntry
              /\ BagToSet(ListNameSubs(subOut.entry, subOut.entry)) # {}

\* dispatchUpdate of sequence number q of the SyncUpdate has not returned
InFlight(t, q) == t.pc[q] \in { "new", "outer", "fetch", "cancel" }

\* C12: a failure of one sequence number is reported as one "error" naming
\* its publisher and sequence number; it ends the processing of that sequence
\* number only: every other sequence number of the same SyncUpdate and every
\* other SyncUpdate proceeds from the state it was in, and the subscriber
\* accepts the next SyncUpdate once the pipeline is through.
C12_FailureIsolation ==
    [][subOut'.act = "error"
          => LET u == subOut'.upd
                 q == subOut'.seq
             IN  /\ subOut'.error
                 /\ subOut'.id = task[u].id
                 /\ InFlight(task[u], q)
                 /\ \A v \in Updates \ { u } : task'[v] = task[v]
                 /\ IF \E r \in UpdateSeqs \ { q } : InFlight(task[u], r)
                    THEN task'[u] = [task[u] EXCEPT !.pc[q] = "done"]
                    ELSE task'[u] = IdleTask
                 /\ subscribed' = subscribed
                 /\ aborted' = aborted]_vars

\* the inner verifier rejected sequence number 1 while sequence number 2 of
\* the same SyncUpdate and a sequence number of another SyncUpdate were being
\* retrieved
C12_Witness ==
    /\ subOut.act = "error"
    /\ subOut.cause = "innerVerify"
    /\ subOut.upd = "u1"
    /\ subOut.seq = 1
    /\ task["u1"].pc[2] = "outer"
    /\ task["u2"].st = "dispatch"
    /\ \E q \in UpdateSeqs : task["u2"].pc[q] = "outer"

\* C13: when the outer verifier rejects an outer Data or the inner verifier
\* rejects an inner Data of a sequence number, be it the first Data or a
\* segment, no handle is given an update for that sequence number: handles
\* are given updates only by the step that ends the sequence number with
\* success.
C13_NoPartialDispatch ==
    [][/\ (subOut'.act = "error" /\ subOut'.cause \in { "outerVerify", "innerVerify" })
          => /\ subOut'.delivered = {}
             /\ ~InFlight(task'[subOut'.upd], subOut'.seq)
       /\ subOut'.delivered # {}
          => /\ subOut'.act = "deliver"
             /\ ~InFlight(task'[subOut'.upd], subOut'.seq)]_vars

\* the inner verifier rejected a segment of an object that a publisher-scoped
\* and two name-prefix subscriptions were waiting for
C13_Witness ==
    /\ subOut.act = "error"
    /\ subOut.cause = "innerVerify"
    /\ subOut.was = "fetch"
    /\ subOut.id = "A"
    /\ subscribed = Subs

\* a handle is entitled to the update of the last event: it is
\* publisher-scoped on the publisher, or its prefix is a prefix of the name
\* and its filter, if any, accepted the mapping entry
Entitled(sub) ==
    \/ sub.kind = "publisher" /\ sub.id = subOut.id
    \/ /\ sub.kind = "prefix"
       /\ sub.prefix \in Prefixes(subOut.name)
       /\ sub.hasFilter => (subOut.entry # NoEntry /\ subOut.entry \in sub.accept)

C15_ReassemblyInIndexOrder ==
    [][(subOut'.act = "deliver" /\ subOut'.was = "fetch")
          => subOut'.payload =
                [i \in 1 .. task[subOut'.upd].seg[subOut'.seq].count |-> i - 1]]_vars

\* the segments of a 3-segment object arrived in the order 2, 0, 1
C15_Witness ==
    /\ subOut.act = "deliver"
    /\ subOut.was = "fetch"
    /\ subOut.got = << 2, 0 >>
    /\ subOut.payload = << 0, 1, 2 >>
    /\ subOut.delivered # {}

\* C16: a SyncUpdate that arrives after close() leads to no delivery, and a
\* retrieval that was in flight at close() ends with an "error" and no
\* delivery.
C16_NoDispatchAfterClose ==
    [][\A u \in Updates :
         /\ (task[u].late /\ subOut'.upd = u) => subOut'.delivered = {}
         /\ \A q \in UpdateSeqs :
               (task[u].pc[q] = "cancel" /\ subOut'.upd = u /\ subOut'.seq = q)
                   => (subOut'.act = "error" /\ subOut'.delivered = {})]_vars

\* C17: SvSubscriber.close() leaves own, aggregated, the pending timer, the
\* producer and the handlers in verification of the engine as they are, and
\* after it the engine still sends own when the steady timer fires and still
\* merges an accepted vector and emits its updates.
C17_SubCloseKeepsSync ==
    [][/\ out'.act = "subscriber.close"
          => /\ own' = own
             /\ aggregated' = aggregated
             /\ timer' = timer
             /\ producerClosed' = producerClosed
             /\ verifying' = verifying
             /\ lastHi' = lastHi
       /\ \A e \in Engines :
             (aborted /\ out'.eng = e)
                => /\ (out'.act = "timer" /\ ~Defined(aggregated[e]))
                      => out'.sent = << own[e] >>
                   /\ out'.act = "recv"
                      => /\ own'[e] = MergeFrom(own[e], out'.recv[1])
                         /\ out'.updates = ListOlderThan(own[e], out'.recv[1])]_vars

\* the subscriber was closed while the engine was in suppression state with a
\* timer pending and a sync Interest in verification
C17_Witness ==
    /\ out.act = "subscriber.close"
    /\ aborted
    /\ Defined(aggregated[Solo])
    /\ timer[Solo] = "suppression"
    /\ verifying[Solo] # {}
    /\ ~producerClosed[Solo]

\* C18: merge is commutative, associative and idempotent.
C18_MergeSemilattice ==
    LET A == vec["a"]
        B == vec["b"]
        C == vec["c"]
    IN  /\ MergeFrom(A, B) = MergeFrom(B, A)
        /\ MergeFrom(MergeFrom(A, B), C) = MergeFrom(A, MergeFrom(B, C))
        /\ MergeFrom(A, A) = A

\* a was merged from b or c, and a and b are incomparable
C18_Witness ==
    /\ vecOut.op = "mergeFrom"
    /\ vecOut.this = "a"
    /\ vecOut.other # "a"
    /\ vec["a"]["A"] > vec["b"]["A"]
    /\ vec["a"]["B"] < vec["b"]["B"]
    /\ vec["b"]["A"] > 0
    /\ vec["c"] # vec["a"]

\* C19: after this.mergeFrom(other) every id reads in this as the larger of
\* what it read in this before and what it reads in other; an id that other
\* does not know keeps its value, and other is as it was.
C19_MergeFromIsMax ==
    [][vecOut'.op = "mergeFrom"
          => LET x == vecOut'.this
                 y == vecOut'.other
             IN  /\ \A id \in Ids :
                       Get(vec'[x], id) =
                          IF Get(vec[x], id) >= Get(vec[y], id)
                          THEN Get(vec[x], id) ELSE Get(vec[y], id)
                 /\ \A id \in Ids :
                       Get(vec[y], id) = 0 => Get(vec'[x], id) = Get(vec[x], id)
                 /\ vec'[y] = vec[y]
                 /\ \A z \in Registers \ { x } : vec'[z] = vec[z]]_vars

\* b was merged into a: A was unknown to a and is now read from b, B was
\* unknown to b and kept its value
C19_Witness ==
    /\ vecOut.op = "mergeFrom"
    /\ vecOut.this = "a"
    /\ vecOut.other = "b"
    /\ vec["b"]["A"] = 2
    /\ vec["a"]["A"] = 2
    /\ vec["b"]["B"] = 0
    /\ vec["a"]["B"] = 1

\* C20: this.listOlderThan(other) returns one range
\* (this.get(id)+1 .. other.get(id)) for every id with
\* this.get(id) < other.get(id) and nothing else; it is empty exactly when
\* this is pointwise >= other.
C20_ListOlderThanExact ==
    vecOut.op = "listOlderThan"
        => LET A == vec[vecOut.this]
               B == vec[vecOut.other]
           IN  /\ \A id \in Ids :
                     Get(A, id) < Get(B, id)
                        => /\ Cardinality({ r \in vecOut.ranges : r.id = id }) = 1
                           /\ [id |-> id, loSeqNum |-> Get(A, id) + 1,
                               hiSeqNum |-> Get(B, id)] \in vecOut.ranges
               /\ \A r \in vecOut.ranges : Get(A, r.id) < Get(B, r.id)
               /\ (vecOut.ranges = {}) <=> (\A id \in Ids : Get(A, id) >= Get(B, id))

\* a is behind b by two sequence numbers on A and level with b on B
C20_Witness ==
    /\ vecOut.op = "listOlderThan"
    /\ vecOut.this = "a"
    /\ vecOut.other = "b"
    /\ vecOut.ranges = { [id |-> "A", loSeqNum |-> 1, hiSeqNum |-> 2] }
    /\ vec["a"]["B"] = vec["b"]["B"]
    /\ vec["a"]["B"] > 0

\* C21: an accepted vector R handled while Steady puts the engine in
\* Suppression with aggregated = R and the suppression timer armed if and
\* only if R is behind own (taken before the merge) on some id; otherwise the
\* engine stays Steady with the steady timer restarted; nothing is sent.
C21_SteadyTransition ==
    [][\A e \in Engines :
         (out'.act = "recv" /\ out'.eng = e /\ ~Defined(aggregated[e]))
            => /\ out'.sent = << >>
               /\ verifying'[e] \subseteq verifying[e]
               /\ IF ListOlderThan(out'.recv[1], own[e]) # {}
                  THEN aggregated'[e] = out'.recv /\ timer'[e] = "suppression"
                  ELSE aggregated'[e] = Undefined /\ timer'[e] = "steady"]_vars

C21_Witness ==
    /\ out.act = "recv"
    /\ aggregated[out.eng] = out.recv
    /\ timer[out.eng] = "suppression"
    /\ out.recv[1]["A"] < own[out.eng]["A"]
    /\ out.updates = {}

\* C22 as stated: an accepted vector with every entry <= own, handled while
\* Steady, emits no update, leaves the engine Steady and restarts the steady
\* timer.
C22_NotAheadStaysSteady ==
    [][\A e \in Engines :
         (/\ out'.act = "recv" /\ out'.eng = e
          /\ ~Defined(aggregated[e])
          /\ \A i \in Ids : out'.recv[1][i] <= own[e][i])
            => /\ out'.updates = {}
               /\ aggregated'[e] = Undefined
               /\ timer'[e] = "steady"]_vars

\* C22 amended: an accepted vector with every entry <= own emits no update
\* and leaves own unchanged; handled while Steady it leaves the engine Steady
\* with the steady timer restarted when it equals own on every id, and puts
\* the engine in Suppression with aggregated set to it when some entry is
\* strictly less than own.
C22_NotAheadNoUpdate ==
    [][\A e \in Engines :
         (/\ out'.act = "recv" /\ out'.eng = e
          /\ \A i \in Ids : out'.recv[1][i] <= own[e][i])
            => /\ out'.updates = {}
               /\ own'[e] = own[e]
               /\ ~Defined(aggregated[e]) =>
                    IF \A i \in Ids : out'.recv[1][i] = own[e][i]
                    THEN aggregated'[e] = Undefined /\ timer'[e] = "steady"
                    ELSE aggregated'[e] = out'.recv /\ timer'[e] = "suppression"]_vars

C22_Witness ==
    /\ out.act = "recv"
    /\ out.updates = {}
    /\ out.recv[1] = own[out.eng]
    /\ own[out.eng]["A"] > 0
    /\ ~Defined(aggregated[out.eng])
    /\ timer[out.eng] = "steady"

\* C23 as stated: an accepted vector with an entry strictly greater than own,
\* handled while Steady, puts the engine in Suppression with aggregated set
\* to that vector.
C23_AheadEntersSuppression ==
    [][\A e \in Engines :
         (/\ out'.act = "recv" /\ out'.eng = e
          /\ ~Defined(aggregated[e])
          /\ \E i \in Ids : out'.recv[1][i] > own[e][i])
            => /\ aggregated'[e] = out'.recv
               /\ timer'[e] = "suppression"]_vars

\* C23 amended: handled while Steady, an accepted vector with an entry
\* strictly less than own puts the engine in Suppression with aggregated set
\* to that vector, whatever its other entries; a vector with an entry
\* strictly greater than own and none strictly less leaves the engine Steady.
C23_BehindEntersSuppression ==
    [][\A e \in Engines :
         (out'.act = "recv" /\ out'.eng = e /\ ~Defined(aggregated[e]))
            => /\ (\E i \in Ids : out'.recv[1][i] < own[e][i])
                    => aggregated'[e] = out'.recv /\ timer'[e] = "suppression"
               /\ (/\ \E i \in Ids : out'.recv[1][i] > own[e][i]
                   /\ \A i \in Ids : out'.recv[1][i] >= own[e][i])
                    => aggregated'[e] = Undefined /\ timer'[e] = "steady"]_vars

C23_Witness ==
    /\ out.act = "recv"
    /\ out.updates # {}
    /\ aggregated[out.eng] = out.recv
    /\ timer[out.eng] = "suppression"
    /\ out.recv[1]["B"] < own[out.eng]["B"]

\* C24: an accepted vector handled while the engine is in Suppression is
\* merged into aggregated and into own, and the handler makes no call on the
\* timer: the pending timeout is the one that was pending before.
C24_SuppressionKeepsTimer ==
    [][\A e \in Engines :
         (out'.act = "recv" /\ out'.eng = e /\ Defined(aggregated[e]))
            => /\ Defined(aggregated'[e])
               /\ \A i \in Ids :
                    /\ aggregated'[e][1][i] = Max(aggregated[e][1][i], out'.recv[1][i])
                    /\ own'[e][i] = Max(own[e][i], out'.recv[1][i])
               /\ out'.timerCalls = << >>
               /\ timer'[e] = timer[e]]_vars

C24_Witness ==
    /\ out.act = "recv"
    /\ out.timerCalls = << >>
    /\ timer[out.eng] = "suppression"
    /\ Defined(aggregated[out.eng])
    /\ aggregated[out.eng] # out.recv
    /\ out.updates # {}

\* C25: when the timer fires in Suppression, own is broadcast once if own
\* exceeds aggregated on some id and nothing is sent otherwise; either way
\* aggregated is cleared and the steady timer is armed.
C25_SuppressionTimeout ==
    [][\A e \in Engines :
         (out'.act = "timer" /\ out'.eng = e /\ Defined(aggregated[e]))
            => /\ out'.sent = IF \E i \in Ids : own[e][i] > aggregated[e][1][i]
                             THEN << own[e] >>
                             ELSE << >>
               /\ own'[e] = own[e]
               /\ aggregated'[e] = Undefined
               /\ timer'[e] = "steady"
               /\ out'.timerCalls = ResetTimerCalls]_vars

C25_Witness ==
    /\ out.act = "timer"
    /\ out.sent = << >>
    /\ own[out.eng]["A"] > 0
    /\ ~Defined(aggregated[out.eng])
    /\ timer[out.eng] = "steady"

\* C26 as stated: when the timer fires in Suppression the engine sends
\* nothing if own.listOlderThan(aggregated) is empty and broadcasts own
\* otherwise.
C26_OwnOlderDecides ==
    [][\A e \in Engines :
         (out'.act = "timer" /\ out'.eng = e /\ Defined(aggregated[e]))
            => out'.sent = IF ListOlderThan(own[e], aggregated[e][1]) = {}
                           THEN << >>
                           ELSE << own[e] >>]_vars

\* C26 amended: when the timer fires in Suppression the engine sends nothing
\* if aggregated.listOlderThan(own) is empty (aggregated is not behind own on
\* any id) and broadcasts own otherwise; own is never behind aggregated.
C26_AggregatedOlderDecides ==
    [][\A e \in Engines :
         /\ Defined(aggregated[e]) => ListOlderThan(own[e], aggregated[e][1]) = {}
         /\ (out'.act = "timer" /\ out'.eng = e /\ Defined(aggregated[e]))
               => out'.sent = IF ListOlderThan(aggregated[e][1], own[e]) = {}
                              THEN << >>
                              ELSE << own[e] >>]_vars

C26_Witness ==
    /\ out.act = "timer"
    /\ out.sent = << >>
    /\ own[out.eng]["B"] > 0
    /\ own[out.eng]["A"] = 0
    /\ timer[out.eng] = "steady"

\* A timer firing broadcast own.
Broadcast(e) == out.act = "timer" /\ out.eng = e /\ out.sent = << own[e] >>

C28_FreshEngineBroadcasts ==
    <>(\/ out.act = "timer" /\ out.eng = Solo /\ out.sent # << >>
       \/ own[Solo] # EmptyVector
       \/ out.act \in { "interest", "recv", "reject" }
       \/ producerClosed[Solo])

\* C29: each accepted sync Interest is handled in one step, also while the
\* handler of another Interest is awaiting verification: the updates are the
\* diff against own as it is when the step starts (which includes every
\* vector merged before, so no sequence number is announced twice), own
\* becomes the merge, the Suppression decision is taken from the same own,
\* and the other handler is still where it was.
C29_DiffMergeAtomic ==
    [][\A e \in Engines :
         (out'.act = "recv" /\ out'.eng = e)
            => /\ out'.updates =
                    { [id |-> i, loSeqNum |-> own[e][i] + 1,
                       hiSeqNum |-> out'.recv[1][i]] :
                        i \in { j \in Ids : own[e][j] < out'.recv[1][j] } }
               /\ \A u \in out'.updates : u.loSeqNum > lastHi[e][u.id]
               /\ \A i \in Ids : own'[e][i] = Max(own[e][i], out'.recv[1][i])
               /\ Defined(aggregated'[e]) <=>
                    \/ Defined(aggregated[e])
                    \/ \E i \in Ids : out'.recv[1][i] < own[e][i]
               /\ verifying'[e] = verifying[e] \ { out'.recv[1] }]_vars

\* an Interest was handled while another one is still in verification
C29_Witness ==
    /\ out.act = "recv"
    /\ out.updates # {}
    /\ verifying[out.eng] # {}
    /\ \E r \in verifying[out.eng] : r["A"] > own[out.eng]["A"]

\* C30 as stated: for a SyncUpdate for publisher id the mapping is retrieved
\* if and only if no publisher-scoped subscription exists for id or
\* mustFilterByMapping is configured.
C30_MappingWhenNoPublisherSub ==
    [][\A u \in Updates :
         (subOut'.act = "update" /\ subOut'.upd = u)
            => (task'[u].st = "mapping"
                  <=> \/ ~\E s \in subscribed :
                            s.kind = "publisher" /\ s.id = task'[u].id
                      \/ mustFilterByMapping)]_vars

\* C30 amended: the mapping is retrieved if and only if some name-prefix
\* subscription exists and either no publisher-scoped subscription exists
\* for id or mustFilterByMapping is configured; otherwise the sequence
\* numbers are dispatched without a mapping.
C30_MappingWhenPrefixSubs ==
    [][\A u \in Updates :
         (subOut'.act = "update" /\ subOut'.upd = u)
            => /\ task'[u].st \in { "mapping", "dispatch" }
               /\ task'[u].st = "mapping"
                    <=> /\ \E s \in subscribed : s.kind = "prefix"
                        /\ \/ ~\E s \in subscribed :
                                  s.kind = "publisher" /\ s.id = task'[u].id
                           \/ mustFilterByMapping]_vars

\* the mapping is being retrieved although a publisher-scoped subscription
\* exists for the publisher of the SyncUpdate
C30_Witness ==
    /\ subOut.act = "update"
    /\ task[subOut.upd].st = "mapping"
    /\ mustFilterByMapping
    /\ SubPublisher \in subscribed
    /\ task[subOut.upd].id = "A"

\* C31: retrieveMapping of [lo, hi] with batch size b sends exactly
\* ceil((hi - lo + 1) / b) mapping Interests; their [loSeqNum, hiSeqNum] are
\* consecutive and disjoint, hold at most b sequence numbers each, start at lo
\* and end at hi.
C31_BatchesCoverRange ==
    mapRun.st # "idle"
        => LET reqs == mapRun.reqs
               n == Len(reqs)
               b == mappingBatch
           IN  /\ n * b >= mapRun.hi - mapRun.lo + 1
               /\ (n - 1) * b < mapRun.hi - mapRun.lo + 1
               /\ reqs[1][1] = mapRun.lo
               /\ reqs[n][2] = mapRun.hi
               /\ \A k \in 1 .. n :
                    /\ reqs[k][1] <= reqs[k][2]
                    /\ reqs[k][2] - reqs[k][1] + 1 <= b
                    /\ k < n => reqs[k + 1][1] = reqs[k][2] + 1

\* [1, 5] in batches of 2: [1, 2], [3, 4], [5, 5]
C31_Witness ==
    /\ mappingBatch = 2
    /\ mapRun.st = "running"
    /\ mapRun.reqs = << << 1, 2 >>, << 3, 4 >>, << 5, 5 >> >>

\* C32: a mapping batch that fails emits one "error" and changes nothing
\* else: the other batches stay requested, retrieveMapping still returns, the
\* entries of the batches that succeed are in the Map that dispatchUpdate is
\* given, and dispatchUpdate is called for every sequence number of the
\* range, those of the failed batch included.
C32_BatchFailureIsolated ==
    /\ [](/\ mapRun.st \in { "idle", "running", "dispatch" }
          /\ \A k \in DOMAIN mapRun.resp :
               mapRun.errors[k] = IF mapRun.resp[k] = "failed" THEN 1 ELSE 0
          /\ \A d \in mapRun.dispatched : d[2] <=> d[1] \in mapRun.m
          /\ mapRun.st = "dispatch"
               => \A q \in mapRun.lo .. mapRun.hi :
                     \/ \E d \in mapRun.dispatched : d[1] = q
                     \/ ENABLED DispatchSeqNum(q))
    /\ [][\A k \in DOMAIN mapRun.resp :
            (mapRun.resp[k] = "pending" /\ mapRun'.resp[k] # "pending")
               => /\ mapRun'.st = "running"
                  /\ mapRun'.reqs = mapRun.reqs
                  /\ \A j \in DOMAIN mapRun.resp \ { k } :
                        /\ mapRun'.resp[j] = mapRun.resp[j]
                        /\ mapRun'.errors[j] = mapRun.errors[j]
                  /\ mapRun.m \subseteq mapRun'.m
                  /\ mapRun'.m \ mapRun.m \subseteq
                        mapRun.reqs[k][1] .. mapRun.reqs[k][2]]_vars

\* the first batch failed, the second one delivered its entries, and the
\* sequence numbers of both were dispatched
C32_Witness ==
    /\ mapRun.st = "dispatch"
    /\ Len(mapRun.reqs) = 2
    /\ mapRun.resp = << "failed", "data" >>
    /\ mapRun.errors = << 1, 0 >>
    /\ mapRun.m = mapRun.reqs[2][1] .. mapRun.reqs[2][2]
    /\ mapRun.dispatched =
          { << q, q >= mapRun.reqs[2][1] >> : q \in mapRun.lo .. mapRun.hi }

\* C33: every name-prefix subscription that is given an update has a prefix
\* that is a prefix of (or equal to) the name of the update, which is the
\* inner name without its version marker.
C33_PrefixMatchesName ==
    subOut.act = "deliver"
        => \A sub \in subOut.delivered :
              sub.kind = "prefix" => sub.prefix \in Prefixes(subOut.name)

\* C34: the handler of a sync Interest whose state vector cannot be decoded
\* changes nothing: own, aggregated and the pending timer stay, no update is
\* emitted, nothing is sent, and the producer stays registered, so the next
\* Interest is handled as usual.
C34_MalformedSkipped ==
    [][\A e \in Engines :
         (out'.act = "malformed" /\ out'.eng = e)
            => /\ own' = own
               /\ aggregated' = aggregated
               /\ timer' = timer
               /\ producerClosed' = producerClosed
               /\ lastHi' = lastHi
               /\ out'.updates = {}
               /\ out'.sent = << >>
               /\ out'.timerCalls = << >>
               /\ verifying'[e] = verifying[e] \ { Malformed }]_vars

\* an undecodable Interest was skipped by an open engine in Suppression
C34_Witness ==
    /\ out.act = "malformed"
    /\ Defined(aggregated[out.eng])
    /\ timer[out.eng] = "suppression"
    /\ ~producerClosed[out.eng]
    /\ verifying[out.eng] = {}

\* C35: whenever aggregated is defined, own is at least aggregated on every
\* id.
C35_OwnCoversAggregated ==
    \A e \in Engines :
        Defined(aggregated[e])
            => \A i \in Ids : own[e][i] >= aggregated[e][1][i]

\* in Suppression, with own ahead of aggregated on one id and level on the
\* other, while another Interest is in verification
C35_Witness ==
    /\ Defined(aggregated[Solo])
    /\ aggregated[Solo][1]["B"] > 0
    /\ own[Solo]["B"] = aggregated[Solo][1]["B"]
    /\ own[Solo]["A"] > aggregated[Solo][1]["A"]
    /\ verifying[Solo] # {}

\* C36: an open engine in Suppression has a timer pending; no inbound
\* Interest touches that timer; and with the timer firing eventually the
\* engine is back in Steady (or was closed).
C36_SuppressionEnds ==
    /\ [](\A e \in Engines :
            (Defined(aggregated[e]) /\ ~producerClosed[e]) => timer[e] # "none")
    /\ [][\A e \in Engines :
            (/\ Defined(aggregated[e])
             /\ out'.eng = e
             /\ out'.act \in { "interest", "recv", "reject" })
               => timer'[e] = timer[e] /\ out'.timerCalls = << >>]_vars
    /\ [][\A e \in Engines :
            (out'.act = "timer" /\ out'.eng = e) => ~Defined(aggregated'[e])]_vars
    /\ \A e \in { Solo } :
         (Defined(aggregated[e]) /\ ~producerClosed[e])
            ~> (~Defined(aggregated[e]) \/ producerClosed[e])

\* in Suppression with the suppression timer pending, after a later Interest
\* was handled
C36_Witness ==
    /\ Defined(aggregated[Solo])
    /\ ~producerClosed[Solo]
    /\ timer[Solo] = "suppression"
    /\ out.act = "recv"
    /\ out.timerCalls = << >>

\* C37: every SyncUpdate starts right above own as it is when announced and
\* above every sequence number announced for the id before, there is at most
\* one per id in one handling, and its range is not empty; so the ranges
\* announced for an id are disjoint and increasing.
C37_NoSeqNumTwice ==
    [][\A u \in out'.updates :
         /\ u.loSeqNum <= u.hiSeqNum
         /\ u.loSeqNum = own[out'.eng][u.id] + 1
         /\ u.loSeqNum > lastHi[out'.eng][u.id]
         /\ \A v \in out'.updates : v.id = u.id => v = u]_vars

\* a vector that was announced is received again and announces nothing
C37_Witness ==
    /\ out.act = "recv"
    /\ out.recv[1]["A"] = 1
    /\ lastHi[out.eng]["A"] = 1
    /\ out.updates = {}
    /\ verifying[out.eng] # {}

\* C38: the event loop holds at most one timeout of an engine, and it is the
\* one this.timer refers to (the one armed last); a timeout that was
\* replaced or cleared is not pending any more.
C38_OneTimerPending ==
    \A e \in Engines :
        /\ Cardinality(scheduled[e]) <= 1
        /\ scheduled[e] \subseteq { handle[e] }
        /\ scheduled[e] # {} <=> timer[e] # "none"

\* the timer fired and was armed again, then a publish replaced the timeout
C38_Witness ==
    /\ out.act = "seqNum"
    /\ out.timerCalls = ResetTimerCalls
    /\ lastHi[Solo]["B"] > 0
    /\ timer[Solo] = "immediate"
    /\ scheduled[Solo] = { handle[Solo] }

\* C39: an open engine whose own vector has a sequence number above 0 has a
\* timer pending.
C39_NonEmptyHasTimer ==
    \A e \in Engines :
        (~producerClosed[e] /\ \E i \in Ids : own[e][i] > 0)
            => timer[e] # "none" /\ scheduled[e] # {}

\* own became non-empty by an inbound vector handled in Steady, and by a
\* publish afterwards
C39_Witness ==
    /\ ~producerClosed[Solo]
    /\ own[Solo]["A"] > 0
    /\ own[Solo]["B"] > 0
    /\ lastHi[Solo]["B"] > 0
    /\ out.act = "seqNum"
    /\ timer[Solo] = "immediate"

====
